---- MODULE Spec2Model ----
(***************************************************************************)
(* ClusterRegistration reconciler of KubeVela                              *)
(* (pkg/controller/core.oam.dev/v1beta1/clusterregistration).              *)
(*                                                                         *)
(* The API server holds the ClusterRegistration objects and the cluster    *)
(* secrets.  The controller is registered with the default options, i.e.   *)
(* one worker: at most one Reconcile pass is in flight.  A pass is two     *)
(* steps, the r.Get of the object (Fetch) and the rest of Reconcile        *)
(* (ReconcilePass); user requests may arrive between the two, and then the *)
(* writes of the pass carry a stale resourceVersion and are rejected.      *)
(***************************************************************************)
EXTENDS Integers, Sequences, FiniteSets, TLC

\* ---------------------------------------------------------------- bounds
MaxGeneration == 2

\* ------------------------------------------------------------- constants
clusterRegistrationFinalizer == "clusterregistration.core.oam.dev/finalizer"
ClusterLocalName == "local"
DefaultCreateNamespace == "vela-system"
RequeueAfterSeconds == 30

ClusterRegistrationPhasePending == "Pending"
ClusterRegistrationPhaseProgressing == "Progressing"
ClusterRegistrationPhaseReady == "Ready"
ClusterRegistrationPhaseFailed == "Failed"

\* ------------------------------------------------------------ input sets
\* metadata.name of the records (one of them is the reserved name, so that
\* the defaulting of spec.clusterName can resolve to it)
Keys == {"a", "local"}

\* values of spec.clusterName
ClusterNames == {"", "local", "c1"}

\* raw kubeconfig documents, written as what the loader finds in them:
\* the server, the bearer token, whether an exec provider is named and
\* whether client certificate data is there
BadKubeconfig ==
    [valid |-> FALSE, err |-> "yaml: unmarshal error", Server |-> "",
     Token |-> "", Exec |-> FALSE, Cert |-> FALSE]
CertKubeconfig ==
    [valid |-> TRUE, err |-> "", Server |-> "https://s1", Token |-> "",
     Exec |-> FALSE, Cert |-> TRUE]
TokenKubeconfig ==
    [valid |-> TRUE, err |-> "", Server |-> "https://s2", Token |-> "tok",
     Exec |-> FALSE, Cert |-> FALSE]
Kubeconfigs == {BadKubeconfig, CertKubeconfig, TokenKubeconfig}

\* every shape of the user entry of a well-formed kubeconfig
CredentialDocs ==
    [valid : {TRUE}, err : {""}, Server : {"https://s3"},
     Token : {"", "tok"}, Exec : BOOLEAN, Cert : BOOLEAN]

CreateNamespaces == {""}

\* readings of the wall clock: two instants, so that a status written
\* again can show another time than before
Times == {"t1", "t2"}

\* values of spec.labels, each label written "key=value"
NoLabels == {}
LabelSets == {NoLabels, {"env=prod"}, {"env=dev"}}

Specs ==
    [ClusterName : ClusterNames, Kubeconfig : Kubeconfigs,
     CreateNamespace : CreateNamespaces, Labels : {NoLabels}]

\* specs of a cluster that carries custom labels
LabelledSpecs ==
    [ClusterName : {"c1"}, Kubeconfig : {CertKubeconfig, TokenKubeconfig},
     CreateNamespace : CreateNamespaces, Labels : LabelSets]

\* specs of a cluster c1 whose credential has any of the shapes
CredentialSpecs ==
    [ClusterName : {"c1"}, Kubeconfig : CredentialDocs,
     CreateNamespace : CreateNamespaces, Labels : {NoLabels}]

\* the label the Registrar marks a cluster secret with
LabelKeyClusterCredentialType ==
    "cluster.core.oam.dev/cluster-credential-type"

\* names a cluster secret can be stored under
SecretNames == Keys \cup (ClusterNames \ {""})

\* ------------------------------------------------------------------ types
\* status of a new object: every field has its zero value
EmptyStatus ==
    [Phase |-> "", Conditions |-> <<>>, ClusterInfo |-> <<>>,
     Message |-> <<>>, ObservedGeneration |-> 0, LastReconcileTime |-> ""]

\* the slot of a key that holds no object
NoObject ==
    [exists |-> FALSE, Generation |-> 0,
     DeletionTimestamp |-> FALSE, Finalizers |-> {},
     Spec |-> [ClusterName |-> "", Kubeconfig |-> BadKubeconfig,
               CreateNamespace |-> "", Labels |-> NoLabels],
     Status |-> EmptyStatus]

NoSecret ==
    [exists |-> FALSE, endpoint |-> "", credentialType |-> "",
     namespace |-> "", labels |-> {}, owner |-> ""]

\* condition.Available() and condition.Unavailable()
Available ==
    [Type |-> "Ready", Status |-> "True", Reason |-> "Available",
     Message |-> <<>>]
Unavailable ==
    [Type |-> "Ready", Status |-> "False", Reason |-> "Unavailable",
     Message |-> <<>>]

VARIABLES
    objects,    \* key -> ClusterRegistration object held by the API server
    secrets,    \* cluster name -> cluster secret (discoverable record)
    pass,       \* the current or the last Reconcile pass of the worker
    created     \* the keys a record was created under so far

vars == <<objects, secrets, pass, created>>


\* ------------------------------------------------- API server operations
\* r.Get: the object under the key, or NotFound, or another error
Get(objs, k, getOk) ==
    IF ~getOk THEN [res |-> "error", obj |-> NoObject]
    ELSE IF ~objs[k].exists THEN [res |-> "notfound", obj |-> NoObject]
    ELSE [res |-> "ok", obj |-> objs[k]]

\* r.Update: replaces metadata and spec of the stored object (the status is
\* a subresource and is left alone); an object that is marked for deletion
\* and has no finalizer left is removed
Update(stored, local) ==
    IF local.DeletionTimestamp /\ local.Finalizers = {}
    THEN NoObject
    ELSE [stored EXCEPT !.Finalizers = local.Finalizers, !.Spec = local.Spec]

\* r.Status().Update: replaces the status of the stored object
StatusUpdate(stored, local) ==
    [stored EXCEPT !.Status = local.Status]

\* the writes of a pass, applied in order; a rejected write changes nothing
RECURSIVE ApplyWrites(_, _)
ApplyWrites(stored, writes) ==
    IF writes = <<>> THEN stored
    ELSE LET w == Head(writes)
             next == IF ~w.ok THEN stored
                     ELSE IF w.kind = "status" THEN StatusUpdate(stored, w.obj)
                     ELSE Update(stored, w.obj)
         IN ApplyWrites(next, Tail(writes))

\* ------------------------------------------------------- collaborators
\* multicluster.LoadKubeClusterConfigFromFile: the parsed document or the
\* parse error
LoadKubeClusterConfigFromFile(doc) ==
    IF ~doc.valid
    THEN [err |-> doc.err,
          config |-> [ClusterName |-> "", CreateNamespace |-> "",
                      Server |-> "", Token |-> "", Exec |-> FALSE,
                      Cert |-> FALSE]]
    ELSE [err |-> "",
          config |-> [ClusterName |-> "", CreateNamespace |-> "",
                      Server |-> doc.Server, Token |-> doc.Token,
                      Exec |-> doc.Exec, Cert |-> doc.Cert]]

SetClusterName(config, clusterName) ==
    [config EXCEPT !.ClusterName = clusterName]

SetCreateNamespace(config, createNamespace) ==
    [config EXCEPT !.CreateNamespace = createNamespace]

\* KubeClusterConfig.Validate: "" when the name is usable
Validate(config) ==
    IF config.ClusterName = "" THEN "ClusterName cannot be empty"
    ELSE IF config.ClusterName = ClusterLocalName
    THEN "ClusterName cannot be local, reserved"
    ELSE ""

\* credential type the secret is labelled with
SecretCredentialType(config) ==
    IF config.Token # "" \/ config.Exec THEN "ServiceAccountToken"
    ELSE "X509Certificate"

\* KubeClusterConfig.RegisterByVelaSecret: creates or updates the cluster
\* secret named after the cluster, or fails and leaves the store alone
RegisterByVelaSecret(sec, config, owner, registerOk) ==
    IF ~registerOk THEN [err |-> "register: transient error", secrets |-> sec]
    ELSE [err |-> "",
          secrets |-> [sec EXCEPT ![config.ClusterName] =
                          [exists |-> TRUE, endpoint |-> config.Server,
                           credentialType |-> SecretCredentialType(config),
                           namespace |-> config.CreateNamespace,
                           labels |-> {LabelKeyClusterCredentialType},
                           owner |-> owner]]]

\* multicluster.DetachCluster: removes the cluster secret; NotFound when
\* there is none; or fails and leaves the store alone
DetachCluster(sec, clusterName, detachOk) ==
    IF ~detachOk THEN [err |-> "error", secrets |-> sec]
    ELSE IF ~sec[clusterName].exists THEN [err |-> "notfound", secrets |-> sec]
    ELSE [err |-> "", secrets |-> [sec EXCEPT ![clusterName] = NoSecret]]


\* ---------------------------------------------------------- the reconciler
\* what the environment does to the calls of one pass: whether the API
\* server accepts the writes to the record, whether the temporary file can
\* be created and written, whether the Registrar and the Detacher succeed
\* (a pass returns at the first call that fails, so one of the temporary
\* file, the Registrar and the Detacher fails at most)
Envs ==
    {e \in [writeOk : BOOLEAN, tmp : {"ok", "createErr", "writeErr"},
            registerOk : BOOLEAN, detachOk : BOOLEAN] :
        \/ e.tmp = "ok" /\ e.registerOk
        \/ e.tmp = "ok" /\ e.detachOk
        \/ e.registerOk /\ e.detachOk}

\* the outcome of a pass that did nothing yet
NoOutcome(obj, sec) ==
    [local |-> obj, writes |-> <<>>, secrets |-> sec,
     loaderCalls |-> 0, registrarCalls |-> 0, detacherCalls |-> 0,
     regName |-> "", regErr |-> "", detName |-> "", detErr |-> "",
     tmpCreated |-> 0, tmpRemoved |-> 0,
     err |-> FALSE, Requeue |-> FALSE, RequeueAfter |-> 0,
     exit |-> "none"]

\* faulty variant: any finalizer is taken for the one of this controller
ContainsFinalizer_Any(obj) == obj.Finalizers # {}

\* faulty variant: the finalizer is taken to be always there
ContainsFinalizer_Always(obj) == TRUE

ContainsFinalizer(obj) == clusterRegistrationFinalizer \in obj.Finalizers

\* faulty variant: the finalizer is not put on the record
AddFinalizer_Nothing(obj) == obj

AddFinalizer(obj) ==
    [obj EXCEPT !.Finalizers = @ \cup {clusterRegistrationFinalizer}]

\* faulty variant: the finalizer is left on the record
RemoveFinalizer_Keeps(obj) == obj

RemoveFinalizer(obj) ==
    [obj EXCEPT !.Finalizers = @ \ {clusterRegistrationFinalizer}]

\* faulty variant: every record stands for the cluster c1
resolveClusterName_Shared(k, obj) == "c1"

\* cluster name of a record: spec.clusterName, metadata.name when empty
resolveClusterName(k, obj) ==
    IF obj.Spec.ClusterName = "" THEN k ELSE obj.Spec.ClusterName

\* namespace to create: spec.createNamespace, vela-system when empty
resolveCreateNamespace(obj) ==
    IF obj.Spec.CreateNamespace = "" THEN DefaultCreateNamespace
    ELSE obj.Spec.CreateNamespace

\* faulty variant: the generation comparison is inverted
alreadyRegistered_Inverted(obj) ==
    /\ obj.Status.Phase = ClusterRegistrationPhaseReady
    /\ obj.Status.ObservedGeneration # obj.Generation

\* already successfully registered and no spec change
alreadyRegistered(obj) ==
    /\ obj.Status.Phase = ClusterRegistrationPhaseReady
    /\ obj.Status.ObservedGeneration = obj.Generation

\* faulty variant: the phase is never announced
needsProgressing_Never(obj) == FALSE

\* faulty variant: only a record that shows no phase yet is announced
needsProgressing_NewOnly(obj) == obj.Status.Phase = ""

\* the phase has to be announced
needsProgressing(obj) ==
    /\ obj.Status.Phase # ClusterRegistrationPhaseProgressing
    /\ obj.Status.Phase # ClusterRegistrationPhaseReady

\* faulty variant: announcing the phase records the generation as well
setProgressing_Observes(obj) ==
    [obj EXCEPT !.Status.Phase = ClusterRegistrationPhaseProgressing,
                !.Status.Message = <<"Registering cluster...">>,
                !.Status.ObservedGeneration = obj.Generation]

setProgressing(obj) ==
    [obj EXCEPT !.Status.Phase = ClusterRegistrationPhaseProgressing,
                !.Status.Message = <<"Registering cluster...">>]

\* faulty variant: the failed status forgets the generation
failedStatus_ForgetsGeneration(obj, message, t) ==
    [obj EXCEPT !.Status.Phase = ClusterRegistrationPhaseFailed,
                !.Status.Message = message,
                !.Status.ObservedGeneration = 0,
                !.Status.LastReconcileTime = t,
                !.Status.Conditions =
                    <<[Unavailable EXCEPT !.Message = message]>>]

\* faulty variant: the failed status keeps the conditions it found
failedStatus_KeepsConditions(obj, message, t) ==
    [obj EXCEPT !.Status.Phase = ClusterRegistrationPhaseFailed,
                !.Status.Message = message,
                !.Status.ObservedGeneration = obj.Generation,
                !.Status.LastReconcileTime = t]

\* faulty variant: the message goes to the condition only
failedStatus_NoMessage(obj, message, t) ==
    [obj EXCEPT !.Status.Phase = ClusterRegistrationPhaseFailed,
                !.Status.ObservedGeneration = obj.Generation,
                !.Status.LastReconcileTime = t,
                !.Status.Conditions =
                    <<[Unavailable EXCEPT !.Message = message]>>]

\* the status updateFailedStatus writes
failedStatus(obj, message, t) ==
    [obj EXCEPT !.Status.Phase = ClusterRegistrationPhaseFailed,
                !.Status.Message = message,
                !.Status.ObservedGeneration = obj.Generation,
                !.Status.LastReconcileTime = t,
                !.Status.Conditions =
                    <<[Unavailable EXCEPT !.Message = message]>>]

\* faulty variant: the error of the failed-status write is returned
updateFailedStatus_Escalates(out, obj, message, t, statusOk) ==
    LET failed == failedStatus(obj, message, t)
    IN [out EXCEPT !.local = failed,
                   !.writes = Append(@, [kind |-> "status", obj |-> failed,
                                         ok |-> statusOk]),
                   !.err = ~statusOk]

\* faulty variant: a rejected failed-status write is made a second time
updateFailedStatus_Retries(out, obj, message, t, statusOk) ==
    LET failed == failedStatus(obj, message, t)
        write == [kind |-> "status", obj |-> failed, ok |-> statusOk]
    IN [out EXCEPT !.local = failed,
                   !.writes = IF statusOk THEN Append(@, write)
                              ELSE Append(Append(@, write), write)]

\* faulty variant: the failed status is not written to the API server
updateFailedStatus_NoWrite(out, obj, message, t, statusOk) ==
    [out EXCEPT !.local = failedStatus(obj, message, t)]

\* updateFailedStatus: the failed status and its write, whose error is
\* logged and not returned
updateFailedStatus(out, obj, message, t, statusOk) ==
    LET failed == failedStatus(obj, message, t)
    IN [out EXCEPT !.local = failed,
                   !.writes = Append(@, [kind |-> "status", obj |-> failed,
                                         ok |-> statusOk])]

\* faulty variant: an exec provider does not count as a token
credentialTypeOf_TokenOnly(config) ==
    IF config.Token # "" THEN "ServiceAccountToken"
    ELSE "X509Certificate"

\* credential type shown in status.clusterInfo
credentialTypeOf(config) ==
    IF config.Token # "" \/ config.Exec THEN "ServiceAccountToken"
    ELSE "X509Certificate"

\* faulty variant: the Ready status does not record the generation
readyStatus_OldGeneration(obj, config, t) ==
    [obj EXCEPT !.Status.Phase = ClusterRegistrationPhaseReady,
                !.Status.Message = <<"Cluster successfully registered">>,
                !.Status.LastReconcileTime = t,
                !.Status.ClusterInfo =
                    <<[Endpoint |-> config.Server,
                       CredentialType |-> credentialTypeOf(config)]>>,
                !.Status.Conditions =
                    <<[Available EXCEPT !.Message =
                        <<"Cluster successfully registered and ready">>]>>]

\* faulty variant: the Available condition is appended to the list
readyStatus_Appends(obj, config, t) ==
    [obj EXCEPT !.Status.Phase = ClusterRegistrationPhaseReady,
                !.Status.Message = <<"Cluster successfully registered">>,
                !.Status.ObservedGeneration = obj.Generation,
                !.Status.LastReconcileTime = t,
                !.Status.ClusterInfo =
                    <<[Endpoint |-> config.Server,
                       CredentialType |-> credentialTypeOf(config)]>>,
                !.Status.Conditions =
                    Append(@, [Available EXCEPT !.Message =
                        <<"Cluster successfully registered and ready">>])]

\* the status written after a successful registration
readyStatus(obj, config, t) ==
    [obj EXCEPT !.Status.Phase = ClusterRegistrationPhaseReady,
                !.Status.Message = <<"Cluster successfully registered">>,
                !.Status.ObservedGeneration = obj.Generation,
                !.Status.LastReconcileTime = t,
                !.Status.ClusterInfo =
                    <<[Endpoint |-> config.Server,
                       CredentialType |-> credentialTypeOf(config)]>>,
                !.Status.Conditions =
                    <<[Available EXCEPT !.Message =
                        <<"Cluster successfully registered and ready">>]>>]

\* faulty variant: the deletion marker counts for Ready records only
isBeingDeleted_WhenReady(obj) ==
    obj.DeletionTimestamp /\ obj.Status.Phase = ClusterRegistrationPhaseReady

\* the record is being deleted
isBeingDeleted(obj) == obj.DeletionTimestamp

\* faulty variant: no name is taken for the reserved one
isReservedName_Never(clusterName) == FALSE

\* faulty variant: the name is compared with the empty name
isReservedName_Empty(clusterName) == clusterName = ""

\* the reserved name of the hub cluster
isReservedName(clusterName) == clusterName = ClusterLocalName

\* faulty variant: not-found is the only Detacher error that counts
detachFailed_NotFoundOnly(err) == err = "notfound"

\* faulty variant: every error of DetachCluster is ignored
detachFailed_Never(err) == FALSE

\* DetachCluster failed, and not because the cluster was already gone
detachFailed(err) == err # "" /\ err # "notfound"

\* faulty variant: the deletion path defaults the cluster name to c1, not
\* to the name of the record
handleDeletion_NoDefault(k, obj, env, sec) ==
    LET out == NoOutcome(obj, sec)
    IN IF ~ContainsFinalizer(obj)
       THEN [out EXCEPT !.exit = "deleted"]
       ELSE LET clusterName == IF obj.Spec.ClusterName = "" THEN "c1"
                               ELSE obj.Spec.ClusterName
                det == DetachCluster(sec, clusterName, env.detachOk)
                called == [out EXCEPT !.detacherCalls = @ + 1,
                                      !.detName = clusterName,
                                      !.detErr = det.err,
                                      !.secrets = det.secrets]
            IN IF detachFailed(det.err)
               THEN [called EXCEPT !.err = TRUE, !.exit = "detachErr"]
               ELSE LET removed == RemoveFinalizer(obj)
                        written ==
                            [called EXCEPT
                                !.local = removed,
                                !.writes = Append(@, [kind |-> "meta",
                                                      obj |-> removed,
                                                      ok |-> env.writeOk])]
                    IN IF ~env.writeOk
                       THEN [written EXCEPT !.err = TRUE,
                                            !.exit = "removeFinalizerErr"]
                       ELSE [written EXCEPT !.exit = "finalizerRemoved"]

\* handleDeletion
handleDeletion(k, obj, env, sec) ==
    LET out == NoOutcome(obj, sec)
    IN IF ~ContainsFinalizer(obj)
       THEN [out EXCEPT !.exit = "deleted"]
       ELSE LET clusterName == resolveClusterName(k, obj)
                det == DetachCluster(sec, clusterName, env.detachOk)
                called == [out EXCEPT !.detacherCalls = @ + 1,
                                      !.detName = clusterName,
                                      !.detErr = det.err,
                                      !.secrets = det.secrets]
            IN IF detachFailed(det.err)
               THEN [called EXCEPT !.err = TRUE, !.exit = "detachErr"]
               ELSE LET removed == RemoveFinalizer(obj)
                        written ==
                            [called EXCEPT
                                !.local = removed,
                                !.writes = Append(@, [kind |-> "meta",
                                                      obj |-> removed,
                                                      ok |-> env.writeOk])]
                    IN IF ~env.writeOk
                       THEN [written EXCEPT !.err = TRUE,
                                            !.exit = "removeFinalizerErr"]
                       ELSE [written EXCEPT !.exit = "finalizerRemoved"]


\* faulty variant: a rejected Ready write is not returned as an error
registered_SwallowsWriteError(rg, regErr, obj, config, env, t) ==
    IF regErr # ""
    THEN [updateFailedStatus(rg, obj,
             <<"Failed to register cluster: ", regErr>>, t, env.writeOk)
          EXCEPT !.RequeueAfter = RequeueAfterSeconds,
                 !.exit = "registerErr"]
    ELSE LET ready == readyStatus(obj, config, t)
         IN [rg EXCEPT !.local = ready,
                       !.writes = Append(@, [kind |-> "status",
                                             obj |-> ready,
                                             ok |-> env.writeOk]),
                       !.exit = "ready"]

\* faulty variant: a failure of RegisterByVelaSecret is returned as an
\* error, with no delay of its own
registered_ReturnsError(rg, regErr, obj, config, env, t) ==
    IF regErr # ""
    THEN [updateFailedStatus(rg, obj,
             <<"Failed to register cluster: ", regErr>>, t, env.writeOk)
          EXCEPT !.err = TRUE, !.exit = "registerErr"]
    ELSE LET ready == readyStatus(obj, config, t)
             written ==
                 [rg EXCEPT !.local = ready,
                            !.writes = Append(@, [kind |-> "status",
                                                  obj |-> ready,
                                                  ok |-> env.writeOk])]
         IN IF ~env.writeOk
            THEN [written EXCEPT !.err = TRUE, !.exit = "readyWriteErr"]
            ELSE [written EXCEPT !.exit = "ready"]

\* faulty variant: the error of RegisterByVelaSecret is dropped
registered_IgnoresError(rg, regErr, obj, config, env, t) ==
    LET ready == readyStatus(obj, config, t)
        written ==
            [rg EXCEPT !.local = ready,
                       !.writes = Append(@, [kind |-> "status",
                                             obj |-> ready,
                                             ok |-> env.writeOk])]
    IN IF ~env.writeOk
       THEN [written EXCEPT !.err = TRUE, !.exit = "readyWriteErr"]
       ELSE [written EXCEPT !.exit = "ready"]

\* Reconcile after RegisterByVelaSecret returned regErr: a failure is
\* reported and retried after a fixed delay, a success is reported as Ready
registered(rg, regErr, obj, config, env, t) ==
    IF regErr # ""
    THEN [updateFailedStatus(rg, obj,
             <<"Failed to register cluster: ", regErr>>, t, env.writeOk)
          EXCEPT !.RequeueAfter = RequeueAfterSeconds,
                 !.exit = "registerErr"]
    ELSE LET ready == readyStatus(obj, config, t)
             written ==
                 [rg EXCEPT !.local = ready,
                            !.writes = Append(@, [kind |-> "status",
                                                  obj |-> ready,
                                                  ok |-> env.writeOk])]
         IN IF ~env.writeOk
            THEN [written EXCEPT !.err = TRUE, !.exit = "readyWriteErr"]
            ELSE [written EXCEPT !.exit = "ready"]

\* faulty variant: the temporary file is left behind
osRemove_Skipped(out) == out

\* the deferred os.Remove of the temporary file, run when Reconcile returns
osRemove(out) == [out EXCEPT !.tmpRemoved = @ + 1]

\* Reconcile from the temporary kubeconfig file on: load, validate,
\* register, report Ready.  The os.Remove deferred after the creation of
\* the file runs on every return that follows it.
registerCluster(k, obj, clusterName, env, sec, t) ==
    LET out == NoOutcome(obj, sec)
    IN IF env.tmp = "createErr"
       THEN [updateFailedStatus(out, obj,
                <<"Failed to create temporary file: ", "createTemp error">>,
                t, env.writeOk)
             EXCEPT !.exit = "tmpCreateErr"]
       ELSE
       LET tmp == [out EXCEPT !.tmpCreated = @ + 1]
       IN osRemove(
          IF env.tmp = "writeErr"
          THEN [updateFailedStatus(tmp, obj,
                   <<"Failed to write kubeconfig: ", "write error">>,
                   t, env.writeOk)
                EXCEPT !.exit = "tmpWriteErr"]
          ELSE
          LET loaded == LoadKubeClusterConfigFromFile(obj.Spec.Kubeconfig)
              ld == [tmp EXCEPT !.loaderCalls = @ + 1]
          IN IF loaded.err # ""
             THEN [updateFailedStatus(ld, obj,
                      <<"Failed to load kubeconfig: ", loaded.err>>,
                      t, env.writeOk)
                   EXCEPT !.exit = "loadErr"]
             ELSE
             LET config == SetCreateNamespace(
                               SetClusterName(loaded.config, clusterName),
                               resolveCreateNamespace(obj))
                 verr == Validate(config)
             IN IF verr # ""
                THEN [updateFailedStatus(ld, obj,
                         <<"Validation failed: ", verr>>, t, env.writeOk)
                      EXCEPT !.exit = "validateErr"]
                ELSE
                LET reg == RegisterByVelaSecret(sec, config, k,
                                                env.registerOk)
                    rg == [ld EXCEPT !.registrarCalls = @ + 1,
                                     !.regName = config.ClusterName,
                                     !.regErr = reg.err,
                                     !.secrets = reg.secrets]
                IN registered(rg, reg.err, obj, config, env, t))

\* faulty variant: no error of r.Get is taken for NotFound
IsNotFound_Never(res) == FALSE

\* apierrors.IsNotFound on the error of r.Get
IsNotFound(res) == res = "notfound"

\* Reconcile, after r.Get returned res and obj
Reconcile(k, res, obj, env, sec, t) ==
    LET out == NoOutcome(obj, sec)
    IN IF res # "ok"
       THEN IF IsNotFound(res) THEN [out EXCEPT !.exit = "notFound"]
            ELSE [out EXCEPT !.err = TRUE, !.exit = "getErr"]
       ELSE IF isBeingDeleted(obj) THEN handleDeletion(k, obj, env, sec)
       ELSE IF ~ContainsFinalizer(obj)
       THEN LET added == AddFinalizer(obj)
                written ==
                    [out EXCEPT !.local = added,
                                !.writes = Append(@, [kind |-> "meta",
                                                      obj |-> added,
                                                      ok |-> env.writeOk])]
            IN IF ~env.writeOk
               THEN [written EXCEPT !.err = TRUE, !.exit = "addFinalizerErr"]
               ELSE [written EXCEPT !.Requeue = TRUE,
                                    !.exit = "finalizerAdded"]
       ELSE IF alreadyRegistered(obj) THEN [out EXCEPT !.exit = "skip"]
       ELSE
       LET clusterName == resolveClusterName(k, obj)
       IN IF isReservedName(clusterName)
          THEN [updateFailedStatus(out, obj,
                   <<"cluster name cannot be 'local', it is reserved">>,
                   t, env.writeOk)
                EXCEPT !.exit = "reservedName"]
          ELSE IF needsProgressing(obj)
          THEN LET progressing == setProgressing(obj)
                   written ==
                       [out EXCEPT
                           !.local = progressing,
                           !.writes = Append(@, [kind |-> "status",
                                                 obj |-> progressing,
                                                 ok |-> env.writeOk])]
               IN IF ~env.writeOk
                  THEN [written EXCEPT !.err = TRUE,
                                       !.exit = "progressingWriteErr"]
                  ELSE [written EXCEPT !.exit = "progressing"]
          ELSE registerCluster(k, obj, clusterName, env, sec, t)

\* --------------------------------------------------------------- actions
\* pc: idle, fetched (r.Get returned res and read), done (Reconcile
\* returned out)
NoPass ==
    [pc |-> "idle", key |-> "a", res |-> "notfound", read |-> NoObject,
     stale |-> FALSE,
     out |-> NoOutcome(NoObject, [n \in SecretNames |-> NoSecret])]

Init ==
    /\ objects = [k \in Keys |-> NoObject]
    /\ secrets = [n \in SecretNames |-> NoSecret]
    /\ pass = NoPass
    /\ created = {}

\* a user request changes the object a pass in flight has read: the writes
\* of that pass will carry an old resourceVersion.  The report of a pass
\* that has returned is kept until the next user request.
Touched(k) ==
    IF pass.pc = "fetched"
    THEN IF pass.key = k THEN [pass EXCEPT !.stale = TRUE] ELSE pass
    ELSE NoPass

\* kubectl apply of a new record; a key is used for one record
NewObject(k, spec) ==
    /\ k \notin created
    /\ objects' = [objects EXCEPT ![k] =
                      [exists |-> TRUE, Generation |-> 1,
                       DeletionTimestamp |-> FALSE, Finalizers |-> {},
                       Spec |-> spec, Status |-> EmptyStatus]]
    /\ created' = created \cup {k}
    /\ pass' = Touched(k)
    /\ UNCHANGED secrets

\* one registration record is in use: no record was created under
\* another key
Create(k, spec) ==
    /\ created \subseteq {k}
    /\ NewObject(k, spec)

\* kubectl apply / patch of the spec of an existing record
UpdateSpec(k, spec) ==
    /\ objects[k].exists
    /\ spec # objects[k].Spec
    /\ objects[k].Generation < MaxGeneration
    /\ objects' = [objects EXCEPT ![k].Spec = spec,
                                  ![k].Generation = @ + 1]
    /\ pass' = Touched(k)
    /\ UNCHANGED <<secrets, created>>

\* kubectl delete: with a finalizer the object is only marked
Delete(k) ==
    /\ objects[k].exists
    /\ ~objects[k].DeletionTimestamp
    /\ objects' = [objects EXCEPT ![k] =
                      IF @.Finalizers = {} THEN NoObject
                      ELSE [@ EXCEPT !.DeletionTimestamp = TRUE]]
    /\ pass' = Touched(k)
    /\ UNCHANGED <<secrets, created>>

\* the dispatcher hands a key to the worker, which reads the object
Fetch(k, getOk) ==
    /\ pass.pc # "fetched"
    /\ LET got == Get(objects, k, getOk)
       IN pass' = [pc |-> "fetched", key |-> k, res |-> got.res,
                   read |-> got.obj, stale |-> FALSE,
                   out |-> NoOutcome(got.obj, secrets)]
    /\ UNCHANGED <<objects, secrets, created>>

\* the rest of Reconcile; a write is accepted when the API server is
\* willing and the object did not change since it was read; metav1.Now
\* returns t
ReconcilePass(k, env, t) ==
    /\ pass.pc = "fetched"
    /\ pass.key = k
    /\ LET e == [env EXCEPT !.writeOk = @ /\ ~pass.stale]
           out == Reconcile(k, pass.res, pass.read, e, secrets, t)
       IN /\ objects' = [objects EXCEPT ![k] = ApplyWrites(@, out.writes)]
          /\ secrets' = out.secrets
          /\ pass' = [pass EXCEPT !.pc = "done", !.out = out]
    /\ UNCHANGED created

Next ==
    \/ \E k \in Keys, spec \in Specs : Create(k, spec)
    \/ \E k \in Keys, spec \in Specs : UpdateSpec(k, spec)
    \/ \E k \in Keys : Delete(k)
    \/ \E k \in Keys, getOk \in BOOLEAN : Fetch(k, getOk)
    \/ \E k \in Keys, env \in Envs, t \in Times : ReconcilePass(k, env, t)

Spec == Init /\ [][Next]_vars

\* one record "a" of a cluster with custom labels (TESTING.md, scenarios 2
\* and 5)
NextLabels ==
    \/ \E spec \in LabelledSpecs : Create("a", spec)
    \/ \E spec \in LabelledSpecs : UpdateSpec("a", spec)
    \/ Delete("a")
    \/ \E getOk \in BOOLEAN : Fetch("a", getOk)
    \/ \E env \in Envs, t \in Times : ReconcilePass("a", env, t)

SpecLabels == Init /\ [][NextLabels]_vars

\* Two records side by side (TESTING.md, scenario 6): "a" is registered
\* under its own name, "local" under the name c1 or, by default, under its
\* own name, which is the reserved one; their descriptors name different
\* servers.  Their specs are not changed.
PairSpecs(k) ==
    {spec \in Specs :
        IF k = "a"
        THEN /\ spec.ClusterName = ""
             /\ spec.Kubeconfig \in {BadKubeconfig, CertKubeconfig}
        ELSE /\ spec.ClusterName \in {"", "c1"}
             /\ spec.Kubeconfig \in {BadKubeconfig, TokenKubeconfig}}

NextPair ==
    \/ \E k \in Keys : \E spec \in PairSpecs(k) : NewObject(k, spec)
    \/ \E k \in Keys : Delete(k)
    \/ \E k \in Keys, getOk \in BOOLEAN : Fetch(k, getOk)
    \/ \E k \in Keys, env \in Envs, t \in Times : ReconcilePass(k, env, t)

SpecPair == Init /\ [][NextPair]_vars

\* The work queue of the controller holds the key of a record when a watch
\* event for it was not handled yet (a user request, or an accepted write
\* of the last pass), or when the last pass asked for another one (an
\* error, Requeue or RequeueAfter).  A resync is not counted on.
Due(k) ==
    /\ k \in created
    /\ \/ pass.pc = "idle"
       \/ /\ pass.pc = "done"
          /\ pass.key = k
          /\ \/ pass.stale
             \/ pass.out.err
             \/ pass.out.Requeue
             \/ pass.out.RequeueAfter > 0
             \/ \E i \in 1..Len(pass.out.writes) : pass.out.writes[i].ok

\* the dispatcher hands a key of the work queue to the worker
Deliver(k, getOk) ==
    /\ Due(k)
    /\ Fetch(k, getOk)

\* a pass in which the API server and every collaborator do their work
GoodEnv ==
    [writeOk |-> TRUE, tmp |-> "ok", registerOk |-> TRUE, detachOk |-> TRUE]

\* the record the work queue is followed for, and the reading of the
\* clock (the time of a pass does not decide on what is queued)
QueuedKey == "a"
QueuedTime == "t1"

\* a pass whose r.Get succeeded and in which nothing fails
GoodPass(k) ==
    /\ pass.res # "error"
    /\ ReconcilePass(k, GoodEnv, QueuedTime)

NextQueued ==
    \/ \E spec \in Specs : Create(QueuedKey, spec)
    \/ \E spec \in Specs : UpdateSpec(QueuedKey, spec)
    \/ Delete(QueuedKey)
    \/ \E getOk \in BOOLEAN : Deliver(QueuedKey, getOk)
    \/ \E env \in Envs : ReconcilePass(QueuedKey, env, QueuedTime)

\* Every key of the work queue is handed out and its pass returns; the
\* r.Get of a key that is handed out again and again succeeds in the end,
\* and so do the API server's writes, the temporary file, the Registrar
\* and the Detacher in the passes that follow.
Fairness ==
    /\ SF_vars(Deliver(QueuedKey, TRUE))
    /\ WF_vars(\E env \in Envs : ReconcilePass(QueuedKey, env, QueuedTime))
    /\ SF_vars(GoodPass(QueuedKey))

FairSpec == Init /\ [][NextQueued]_vars /\ Fairness


\* one record "a" of a cluster whose kubeconfig is well-formed and holds
\* a credential of any shape
NextCredentials ==
    \/ \E spec \in CredentialSpecs : Create("a", spec)
    \/ \E spec \in CredentialSpecs : UpdateSpec("a", spec)
    \/ Delete("a")
    \/ \E getOk \in BOOLEAN : Fetch("a", getOk)
    \/ \E env \in Envs, t \in Times : ReconcilePass("a", env, t)

SpecCredentials == Init /\ [][NextCredentials]_vars

\* Two records that name the same cluster c1 in spec.clusterName, each
\* with a well-formed kubeconfig.  Their specs are not changed.
SharedSpecs(k) ==
    {spec \in Specs :
        /\ spec.ClusterName = "c1"
        /\ spec.Kubeconfig =
              IF k = "a" THEN CertKubeconfig ELSE TokenKubeconfig}

NextShared ==
    \/ \E k \in Keys : \E spec \in SharedSpecs(k) : NewObject(k, spec)
    \/ \E k \in Keys : Delete(k)
    \/ \E k \in Keys, getOk \in BOOLEAN : Fetch(k, getOk)
    \/ \E k \in Keys, env \in Envs, t \in Times : ReconcilePass(k, env, t)

SpecShared == Init /\ [][NextShared]_vars

\* A record that carries the finalizer of another controller as well.
\* The API server removes a record marked for deletion when its last
\* finalizer is gone, so a pass can read a deletion-marked record without
\* the finalizer of this controller only while a foreign one holds it.
ForeignFinalizer == "example.com/foreign"

\* kubectl apply of a new record that names a foreign finalizer
CreateGuarded(k, spec) ==
    /\ created = {}
    /\ objects' = [objects EXCEPT ![k] =
                      [exists |-> TRUE, Generation |-> 1,
                       DeletionTimestamp |-> FALSE,
                       Finalizers |-> {ForeignFinalizer},
                       Spec |-> spec, Status |-> EmptyStatus]]
    /\ created' = created \cup {k}
    /\ pass' = Touched(k)
    /\ UNCHANGED secrets

\* the other controller is done with the record and takes its finalizer
\* off
ReleaseForeign(k) ==
    /\ objects[k].exists
    /\ objects[k].DeletionTimestamp
    /\ ForeignFinalizer \in objects[k].Finalizers
    /\ objects' = [objects EXCEPT ![k] =
                      IF @.Finalizers = {ForeignFinalizer} THEN NoObject
                      ELSE [@ EXCEPT !.Finalizers =
                                         @ \ {ForeignFinalizer}]]
    /\ pass' = Touched(k)
    /\ UNCHANGED <<secrets, created>>

GuardedKey == "a"

NextGuarded ==
    \/ \E spec \in Specs : CreateGuarded(GuardedKey, spec)
    \/ \E spec \in Specs : UpdateSpec(GuardedKey, spec)
    \/ Delete(GuardedKey)
    \/ ReleaseForeign(GuardedKey)
    \/ \E getOk \in BOOLEAN : Fetch(GuardedKey, getOk)
    \/ \E env \in Envs, t \in Times : ReconcilePass(GuardedKey, env, t)

SpecGuarded == Init /\ [][NextGuarded]_vars

\* ------------------------------------------------------------ properties
Finalizer == clusterRegistrationFinalizer

\* the cluster name a record stands for
NameOf(k, obj) == IF obj.Spec.ClusterName = "" THEN k ELSE obj.Spec.ClusterName

\* this step is the pass Reconcile makes on the object it read
PassStep == pass.pc = "fetched" /\ pass'.pc = "done"

\* the pass read a live record that carries the finalizer
ReadForward ==
    /\ pass.res = "ok"
    /\ ~pass.read.DeletionTimestamp
    /\ Finalizer \in pass.read.Finalizers

\* the pass read a record that is Ready for its generation
ReadFixedPoint ==
    /\ ReadForward
    /\ pass.read.Status.Phase = "Ready"
    /\ pass.read.Status.ObservedGeneration = pass.read.Generation

NoCollaboratorCall(out) ==
    /\ out.loaderCalls = 0
    /\ out.registrarCalls = 0
    /\ out.detacherCalls = 0

ReturnsNothing(out) ==
    /\ ~out.err
    /\ ~out.Requeue
    /\ out.RequeueAfter = 0

\* the pass made exactly one write, a status write of phase Failed with
\* this message, and the record shows it when the write was accepted
WroteFailed(out, stored, message) ==
    /\ Len(out.writes) = 1
    /\ out.writes[1].kind = "status"
    /\ out.writes[1].obj.Status.Phase = "Failed"
    /\ out.writes[1].obj.Status.Message = message
    /\ out.writes[1].ok =>
          /\ stored.Status.Phase = "Failed"
          /\ stored.Status.Message = message

\* C1: a pass on a record that has no deletion marker, carries the
\* finalizer, is Ready and has observedGeneration = generation calls no
\* collaborator, writes nothing, returns no error and no requeue, and
\* leaves every record and every secret as it was.
C1_FixedPoint ==
    [][(PassStep /\ ReadFixedPoint) =>
          /\ NoCollaboratorCall(pass'.out)
          /\ pass'.out.writes = <<>>
          /\ pass'.out.tmpCreated = 0
          /\ ReturnsNothing(pass'.out)
          /\ objects' = objects
          /\ secrets' = secrets]_vars

C1_Witness ==
    /\ pass.pc = "done"
    /\ ReadFixedPoint
    /\ pass.out.writes = <<>>
    /\ objects[pass.key] = pass.read

OnlyRecord(k) == created \subseteq {k}

C3_RoundTrip ==
    [][/\ \A k \in Keys :
            (Finalizer \in objects[k].Finalizers
             /\ Finalizer \notin objects'[k].Finalizers)
            => ~secrets'[NameOf(k, objects[k])].exists
       /\ (PassStep /\ pass'.out.detErr = "notfound") =>
            /\ Len(pass'.out.writes) = 1
            /\ pass'.out.writes[1].kind = "meta"
            /\ Finalizer \notin pass'.out.writes[1].obj.Finalizers
            /\ pass'.out.err = ~pass'.out.writes[1].ok
            /\ pass'.out.writes[1].ok => ~objects'[pass.key].exists]_vars

C3_Witness ==
    /\ pass.pc = "done"
    /\ pass.read.DeletionTimestamp
    /\ pass.read.Status.Phase = "Ready"
    /\ pass.read.Status.ObservedGeneration = pass.read.Generation
    /\ pass.out.detErr = "notfound"
    /\ ~pass.out.err
    /\ ~objects[pass.key].exists
    /\ ~secrets[NameOf(pass.key, pass.read)].exists

\* C4: a pass calls the Registrar only for a record it read with the
\* finalizer on it; and whenever a secret registered for a record exists,
\* the record carries the finalizer.
C4_FinalizerBeforeRegistrar ==
    /\ (pass.pc = "done" /\ pass.out.registrarCalls > 0) =>
          (pass.res = "ok" /\ Finalizer \in pass.read.Finalizers)
    /\ \A k \in Keys, n \in SecretNames :
          (/\ objects[k].exists
           /\ secrets[n].exists
           /\ secrets[n].owner = k)
          => Finalizer \in objects[k].Finalizers

C4_Witness ==
    \E k \in Keys, n \in SecretNames :
        /\ objects[k].exists
        /\ objects[k].Status.Phase = "Progressing"
        /\ objects[k].Status.ClusterInfo = <<>>
        /\ secrets[n].exists
        /\ secrets[n].owner = k
        /\ Finalizer \in objects[k].Finalizers
        /\ pass.pc = "done"
        /\ pass.out.registrarCalls = 1
        /\ pass.out.err


ReservedMessage == <<"cluster name cannot be 'local', it is reserved">>

\* C5: a pass on a live record with the finalizer whose cluster name
\* resolves to 'local' calls neither the loader nor the Registrar, creates
\* no temporary file, returns no error and no requeue, and makes one
\* status write, of phase Failed with the message naming the reserved
\* name (never of Progressing), which the record shows once accepted.
C5_ReservedName ==
    [][(PassStep /\ ReadForward /\ NameOf(pass.key, pass.read) = "local") =>
          /\ pass'.out.loaderCalls = 0
          /\ pass'.out.registrarCalls = 0
          /\ pass'.out.tmpCreated = 0
          /\ ReturnsNothing(pass'.out)
          /\ WroteFailed(pass'.out, objects'[pass.key], ReservedMessage)
          /\ secrets' = secrets]_vars

C5_Witness ==
    /\ pass.pc = "done"
    /\ ReadForward
    /\ NameOf(pass.key, pass.read) = "local"
    /\ pass.read.Spec.Kubeconfig.valid
    /\ pass.read.Status.Phase = "Ready"
    /\ objects[pass.key].Status.Phase = "Failed"
    /\ objects[pass.key].Status.Message = ReservedMessage

Contains(message, text) == \E i \in 1..Len(message) : message[i] = text

\* C6: a pass whose loader call fails does not call the Registrar, returns
\* no error and no requeue, and makes one status write, of phase Failed
\* with a message that contains the loader's error text, which the record
\* shows once accepted; and a secret is created or changed only by a pass
\* that read a valid descriptor.
C6_MalformedDescriptor ==
    [][/\ (PassStep /\ pass'.out.loaderCalls > 0
           /\ ~pass.read.Spec.Kubeconfig.valid) =>
            /\ pass'.out.registrarCalls = 0
            /\ ReturnsNothing(pass'.out)
            /\ Len(pass'.out.writes) = 1
            /\ Contains(pass'.out.writes[1].obj.Status.Message,
                        pass.read.Spec.Kubeconfig.err)
            /\ WroteFailed(pass'.out, objects'[pass.key],
                           pass'.out.writes[1].obj.Status.Message)
            /\ secrets' = secrets
       /\ \A n \in SecretNames :
            (secrets'[n].exists /\ secrets'[n] # secrets[n]) =>
                (PassStep /\ pass.read.Spec.Kubeconfig.valid)]_vars

C6_Witness ==
    /\ pass.pc = "done"
    /\ pass.out.loaderCalls = 1
    /\ ~pass.read.Spec.Kubeconfig.valid
    /\ objects[pass.key].Status.Phase = "Failed"
    /\ Contains(objects[pass.key].Status.Message,
                pass.read.Spec.Kubeconfig.err)
    /\ \A n \in SecretNames : ~secrets[n].exists

\* C7: the condition list of every record has at most one element, and
\* exactly one, an Available condition, when the phase is Ready.
C7_BoundedConditions ==
    \A k \in Keys :
        /\ Len(objects[k].Status.Conditions) <= 1
        /\ objects[k].Status.Phase = "Ready" =>
              /\ Len(objects[k].Status.Conditions) = 1
              /\ objects[k].Status.Conditions[1].Reason = "Available"

\* a success that follows a failure: the pass read the Unavailable
\* condition of a failed pass and wrote Ready
C7_Witness ==
    /\ pass.pc = "done"
    /\ Len(pass.read.Status.Conditions) = 1
    /\ pass.read.Status.Conditions[1].Reason = "Unavailable"
    /\ objects[pass.key].Status.Phase = "Ready"
    /\ pass.out.registrarCalls = 1
    /\ Len(objects[pass.key].Status.Conditions) = 1

PermanentMessages ==
    {"cluster name cannot be 'local', it is reserved",
     "Failed to load kubeconfig: ", "Validation failed: "}

\* C8: a pass on a live record with the finalizer that is Failed for a
\* permanent error and has observedGeneration = generation calls no
\* collaborator, makes no write and leaves the record as it was.
C8_PermanentTerminal ==
    [][(/\ PassStep
        /\ ReadForward
        /\ pass.read.Status.Phase = "Failed"
        /\ pass.read.Status.ObservedGeneration = pass.read.Generation
        /\ pass.read.Status.Message[1] \in PermanentMessages) =>
          /\ NoCollaboratorCall(pass'.out)
          /\ pass'.out.writes = <<>>
          /\ objects'[pass.key] = objects[pass.key]]_vars

\* C9: after a pass whose Registrar call failed, the persisted phase of
\* the record is not Failed.
C9_RegisterFailureNotFailed ==
    (pass.pc = "done" /\ pass.out.regErr # "") =>
        objects[pass.key].Status.Phase # "Failed"

\* C10: a pass on a record that carries a deletion marker calls neither
\* the loader nor the Registrar, creates no temporary file, makes no
\* status write and no write that adds the finalizer, and leaves the
\* status of the record as it was.
C10_DeletionFirst ==
    [][(PassStep /\ pass.res = "ok" /\ pass.read.DeletionTimestamp) =>
          /\ pass'.out.loaderCalls = 0
          /\ pass'.out.registrarCalls = 0
          /\ pass'.out.tmpCreated = 0
          /\ \A i \in 1..Len(pass'.out.writes) :
                /\ pass'.out.writes[i].kind = "meta"
                /\ Finalizer \notin pass'.out.writes[i].obj.Finalizers
          /\ objects'[pass.key].exists =>
                /\ objects'[pass.key].Status = objects[pass.key].Status
                /\ objects'[pass.key].Finalizers
                      \subseteq objects[pass.key].Finalizers]_vars

C10_Witness ==
    /\ pass.pc = "done"
    /\ pass.res = "ok"
    /\ pass.read.DeletionTimestamp
    /\ pass.read.Status.Phase = "Progressing"
    /\ pass.out.detacherCalls = 1
    /\ pass.out.writes # <<>>

\* C11: whenever a record with no deletion marker is Ready for its
\* generation, the secret under its cluster name carries every label of
\* spec.labels (on reaching Ready, and again after spec.labels of a Ready
\* record was changed and reconciled).
C11_LabelsPropagated ==
    \A k \in Keys :
        (/\ objects[k].exists
         /\ ~objects[k].DeletionTimestamp
         /\ objects[k].Status.Phase = "Ready"
         /\ objects[k].Status.ObservedGeneration = objects[k].Generation
         /\ secrets[NameOf(k, objects[k])].exists)
        => \A l \in objects[k].Spec.Labels :
              \E m \in secrets[NameOf(k, objects[k])].labels : m = l

\* the descriptor of the record is valid and its cluster name is not the
\* reserved one
Registrable(k, obj) ==
    /\ obj.Spec.Kubeconfig.valid
    /\ NameOf(k, obj) # "local"

\* the record is Ready for its generation, shows the server of its
\* descriptor, and the secret under its cluster name holds that server
ReadyFor(k, obj, sec) ==
    /\ obj.Status.Phase = "Ready"
    /\ obj.Status.ObservedGeneration = obj.Generation
    /\ obj.Status.ClusterInfo # <<>>
    /\ obj.Status.ClusterInfo[1].Endpoint = obj.Spec.Kubeconfig.Server
    /\ sec[NameOf(k, obj)].exists
    /\ sec[NameOf(k, obj)].endpoint = obj.Spec.Kubeconfig.Server

\* C12 (phase sequence): a new record shows phase Pending, and the phase
\* of a record with a valid descriptor and a cluster name that is not
\* reserved, while its spec stays as it is, goes from Pending to
\* Progressing and from Progressing to Ready only.
C12_PhaseSequence ==
    [][\A k \in Keys :
          (objects'[k].exists /\ Registrable(k, objects'[k])) =>
             /\ ~objects[k].exists =>
                   objects'[k].Status.Phase = "Pending"
             /\ (/\ objects[k].exists
                 /\ objects'[k].Spec = objects[k].Spec
                 /\ objects'[k].Status.Phase # objects[k].Status.Phase)
                => <<objects[k].Status.Phase, objects'[k].Status.Phase>>
                      \in {<<"Pending", "Progressing">>,
                           <<"Progressing", "Ready">>}]_vars

\* a pass in which r.Get, a write, the temporary file, the Registrar or
\* the Detacher failed
Faulty(out) ==
    \/ out.exit \in {"getErr", "detachErr", "tmpCreateErr", "tmpWriteErr",
                     "registerErr"}
    \/ \E i \in 1..Len(out.writes) : ~out.writes[i].ok

\* from some pass on, no call of a pass fails
NoMoreFaults == <>[][PassStep => ~Faulty(pass'.out)]_vars

\* the last pass on the record could not use its temporary file and its
\* failure-status write was rejected: the pass returned no error, and
\* nothing puts the key on the work queue again
Unreported(k) ==
    /\ pass.pc = "done"
    /\ pass.key = k
    /\ pass.out.exit \in {"tmpCreateErr", "tmpWriteErr"}
    /\ ~Due(k)

\* C13: a record that carries a deletion marker and the finalizer loses
\* the finalizer (and with it, is removed) in the end, whatever its phase
\* and its spec (the work queue is served, and the Detacher and the
\* finalizer write succeed in the end).
C13_DeletionCompletes ==
    \A k \in Keys :
        (/\ objects[k].exists
         /\ objects[k].DeletionTimestamp
         /\ Finalizer \in objects[k].Finalizers)
        ~> (~objects[k].exists /\ Finalizer \notin objects[k].Finalizers)

C13_Witness ==
    /\ pass.pc = "done"
    /\ pass.res = "ok"
    /\ pass.read.DeletionTimestamp
    /\ pass.read.Status.Phase = "Failed"
    /\ pass.read.Generation = 2
    /\ pass.out.exit = "finalizerRemoved"
    /\ ~objects[pass.key].exists

\* the pass read a live record with the finalizer whose spec was changed
\* after it had become Ready or Failed, to a valid descriptor and a
\* cluster name that is not reserved
ReadChanged ==
    /\ ReadForward
    /\ pass.read.Status.Phase \in {"Ready", "Failed"}
    /\ pass.read.Status.ObservedGeneration < pass.read.Generation
    /\ Registrable(pass.key, pass.read)

\* C14: a pass on a record whose spec changed after Ready or Failed works
\* on the new spec: from Failed it announces Progressing, from Ready it
\* loads the descriptor and calls the Registrar for the new cluster name
\* (unless its temporary file fails); and once no call fails any more,
\* every live record with a changed spec, a valid descriptor and a name
\* that is not reserved ends up Ready with observedGeneration =
\* generation and a secret under the new name with the new server,
\* unless a failure of the temporary file went unreported.
C14_ReEntry ==
    /\ [][(PassStep /\ ReadChanged) =>
            /\ pass.read.Status.Phase = "Failed" =>
                  /\ Len(pass'.out.writes) = 1
                  /\ pass'.out.writes[1].obj.Status.Phase = "Progressing"
            /\ (/\ pass.read.Status.Phase = "Ready"
                /\ pass'.out.exit \notin {"tmpCreateErr", "tmpWriteErr"}) =>
                  /\ pass'.out.loaderCalls = 1
                  /\ pass'.out.registrarCalls = 1
                  /\ pass'.out.regName = NameOf(pass.key, pass.read)]_vars
    /\ NoMoreFaults =>
          <>[](\A k \in Keys :
                  (/\ objects[k].exists
                   /\ ~objects[k].DeletionTimestamp
                   /\ objects[k].Generation > 1
                   /\ Registrable(k, objects[k]))
                  => (ReadyFor(k, objects[k], secrets) \/ Unreported(k)))

\* a Ready record was renamed and given another descriptor, and is Ready
\* again under the new name
C14_Witness ==
    /\ pass.pc = "done"
    /\ ReadChanged
    /\ pass.read.Status.Phase = "Ready"
    /\ pass.read.Status.ClusterInfo[1].Endpoint # pass.read.Spec.Kubeconfig.Server
    /\ pass.out.exit = "ready"
    /\ objects[pass.key].Generation = 2
    /\ ReadyFor(pass.key, objects[pass.key], secrets)

\* the secrets a pass on record k would find were k the only record
OwnSecrets(k, obj, sec) ==
    [n \in SecretNames |-> IF n = NameOf(k, obj) THEN sec[n] ELSE NoSecret]

\* C15: a pass on one record leaves every other record as it is, changes
\* no secret but the one under the cluster name of its record, and makes
\* the writes it would make were its record the only one; and of two
\* records with distinct cluster names each one that is Ready has its
\* own secret, with the server of its own descriptor, and each one whose
\* descriptor is invalid or whose name is reserved is never Ready and has
\* no secret.
C15_Independence ==
    /\ [][PassStep =>
            /\ \A j \in Keys \ {pass.key} : objects'[j] = objects[j]
            /\ \A n \in SecretNames \ {NameOf(pass.key, pass.read)} :
                  secrets'[n] = secrets[n]
            /\ \E env \in Envs, t \in Times :
                  LET alone == Reconcile(pass.key, pass.res, pass.read, env,
                                 OwnSecrets(pass.key, pass.read, secrets), t)
                  IN /\ pass'.out.writes = alone.writes
                     /\ pass'.out.exit = alone.exit
                     /\ secrets'[NameOf(pass.key, pass.read)] =
                           alone.secrets[NameOf(pass.key, pass.read)]]_vars
    /\ [](\A k \in Keys :
            objects[k].exists =>
               IF Registrable(k, objects[k])
               THEN (/\ objects[k].Status.Phase = "Ready"
                     /\ ~objects[k].DeletionTimestamp)
                    => /\ ReadyFor(k, objects[k], secrets)
                       /\ secrets[NameOf(k, objects[k])].owner = k
               ELSE /\ objects[k].Status.Phase # "Ready"
                    /\ ~secrets[NameOf(k, objects[k])].exists)

\* both records are Ready, each with its own secret, and the last pass
\* worked on one of them while the other one was Ready already
C15_Witness ==
    /\ \A k \in Keys :
          /\ objects[k].exists
          /\ ReadyFor(k, objects[k], secrets)
          /\ secrets[NameOf(k, objects[k])].owner = k
    /\ secrets["a"].endpoint # secrets["c1"].endpoint
    /\ pass.pc = "done"
    /\ pass.out.exit = "ready"

\* the text of the failure a pass met, "" when it met none of these
FailureText(out, obj) ==
    CASE out.exit = "reservedName" -> ReservedMessage[1]
      [] out.exit = "loadErr" -> obj.Spec.Kubeconfig.err
      [] out.exit = "validateErr" -> "Validation failed: "
      [] out.exit = "registerErr" -> out.regErr
      [] out.exit = "detachErr" -> out.detErr
      [] OTHER -> ""

\* the status shows the text in its message and in its one condition
ShowsFailure(status, text) ==
    /\ Contains(status.Message, text)
    /\ Len(status.Conditions) = 1
    /\ status.Conditions[1].Reason = "Unavailable"
    /\ Contains(status.Conditions[1].Message, text)

\* C16 as stated: after a pass that met a failure (reserved name, loader,
\* validation, Registrar, Detacher) and had no write rejected, the
\* persisted status of the record shows the failure in its message and in
\* its single condition.
C16_FailureVisible ==
    (/\ pass.pc = "done"
     /\ FailureText(pass.out, pass.read) # ""
     /\ \A i \in 1..Len(pass.out.writes) : pass.out.writes[i].ok
     /\ objects[pass.key].exists)
    => ShowsFailure(objects[pass.key].Status,
                    FailureText(pass.out, pass.read))

\* C16 amended: a pass that met a failure of the forward path (reserved
\* name, loader, validation, Registrar) makes one status write, of phase
\* Failed with the failure in the message and in the single condition,
\* and the record shows it when the write is accepted; a pass whose
\* Detacher failed writes nothing, leaves the status as it was and
\* returns the error.
C16_ForwardFailureVisible ==
    [][(PassStep /\ FailureText(pass'.out, pass.read) # "") =>
          IF pass'.out.exit = "detachErr"
          THEN /\ pass'.out.writes = <<>>
               /\ pass'.out.err
               /\ objects'[pass.key] = objects[pass.key]
          ELSE /\ Len(pass'.out.writes) = 1
               /\ pass'.out.writes[1].kind = "status"
               /\ pass'.out.writes[1].obj.Status.Phase = "Failed"
               /\ ShowsFailure(pass'.out.writes[1].obj.Status,
                               FailureText(pass'.out, pass.read))
               /\ pass'.out.writes[1].ok =>
                     /\ objects'[pass.key].Status.Phase = "Failed"
                     /\ ShowsFailure(objects'[pass.key].Status,
                                     FailureText(pass'.out, pass.read))]_vars

\* the Registrar failed, and the record shows its error
C16_Witness ==
    /\ pass.pc = "done"
    /\ pass.out.exit = "registerErr"
    /\ pass.out.regErr # ""
    /\ objects[pass.key].Status.Phase = "Failed"
    /\ ShowsFailure(objects[pass.key].Status, pass.out.regErr)

\* C17: once the spec and the deletion marker of the record have stopped
\* changing and no call fails any more, with every accepted write putting
\* the key on the work queue again, there is a pass after which no pass
\* makes a write.
C17_Quiescence ==
    NoMoreFaults => <>[][PassStep => pass'.out.writes = <<>>]_vars

\* C18: a pass whose r.Get found no record returns no error and no
\* requeue; a pass whose r.Get failed otherwise returns the error; both
\* call no collaborator, create no temporary file, make no write and
\* leave every record and every secret as it was.
C18_NotFound ==
    [][(PassStep /\ pass.res # "ok") =>
          /\ pass.res = "notfound" => ReturnsNothing(pass'.out)
          /\ pass.res = "error" =>
                /\ pass'.out.err
                /\ ~pass'.out.Requeue
                /\ pass'.out.RequeueAfter = 0
          /\ NoCollaboratorCall(pass'.out)
          /\ pass'.out.tmpCreated = 0
          /\ pass'.out.writes = <<>>
          /\ objects' = objects
          /\ secrets' = secrets]_vars

\* the record was removed while its key was still to be handled: the pass
\* that follows the removal finds nothing and does nothing
C18_Witness ==
    /\ pass.pc = "done"
    /\ pass.res = "notfound"
    /\ pass.key \in created
    /\ ~objects[pass.key].exists
    /\ ~pass.out.err
    /\ pass.out.writes = <<>>

\* C19 as stated: status.observedGeneration of a record changes only in a
\* pass on the record that writes phase Ready.
C19_ObservedOnlyOnReady ==
    [][\A k \in Keys :
          (/\ objects'[k].exists
           /\ objects'[k].Status.ObservedGeneration #
                 objects[k].Status.ObservedGeneration)
          => /\ PassStep
             /\ pass.key = k
             /\ objects'[k].Status.Phase = "Ready"]_vars

\* C19 amended: status.observedGeneration of a record changes only in a
\* pass on the record that writes phase Ready or phase Failed, and it is
\* set to the generation the pass read.
C19_ObservedOnReadyOrFailed ==
    [][\A k \in Keys :
          (/\ objects'[k].exists
           /\ objects'[k].Status.ObservedGeneration #
                 objects[k].Status.ObservedGeneration)
          => /\ PassStep
             /\ pass.key = k
             /\ objects'[k].Status.Phase \in {"Ready", "Failed"}
             /\ objects'[k].Status.ObservedGeneration =
                   pass.read.Generation]_vars

\* a pass on the changed spec of a Ready record failed and recorded the
\* new generation
C19_Witness ==
    /\ pass.pc = "done"
    /\ pass.read.Status.Phase = "Ready"
    /\ pass.read.Status.ObservedGeneration = 1
    /\ pass.read.Generation = 2
    /\ objects[pass.key].Status.Phase = "Failed"
    /\ objects[pass.key].Status.ObservedGeneration = 2

\* C20: whenever the clusterInfo of a record that is up to date
\* (observedGeneration = generation) is set, its endpoint is the server of
\* the descriptor in the spec; and a record that is Failed for its
\* generation shows no clusterInfo.
C20_ClusterInfoOnSuccess ==
    \A k \in Keys :
        (/\ objects[k].exists
         /\ objects[k].Status.ObservedGeneration = objects[k].Generation)
        => /\ objects[k].Status.ClusterInfo # <<>> =>
                 objects[k].Status.ClusterInfo[1].Endpoint =
                     objects[k].Spec.Kubeconfig.Server
           /\ objects[k].Status.Phase = "Failed" =>
                 objects[k].Status.ClusterInfo = <<>>

\* C21: a pass on a record that has no deletion marker and lacks the
\* finalizer makes one write, the metadata write that adds the finalizer;
\* it makes no status write, calls no collaborator and creates no
\* temporary file.  When the write is accepted the pass returns Requeue
\* and no error; when it is rejected the pass returns the error and
\* leaves every record as it was.
C21_FinalizerPass ==
    [][(/\ PassStep
        /\ pass.res = "ok"
        /\ ~pass.read.DeletionTimestamp
        /\ Finalizer \notin pass.read.Finalizers)
       => LET out == pass'.out
              k == pass.key
          IN /\ Len(out.writes) = 1
             /\ out.writes[1].kind = "meta"
             /\ out.writes[1].obj =
                   [pass.read EXCEPT !.Finalizers = @ \cup {Finalizer}]
             /\ NoCollaboratorCall(out)
             /\ out.tmpCreated = 0
             /\ secrets' = secrets
             /\ objects'[k].Status = objects[k].Status
             /\ out.RequeueAfter = 0
             /\ out.writes[1].ok =>
                   /\ ~out.err
                   /\ out.Requeue
                   /\ Finalizer \in objects'[k].Finalizers
             /\ ~out.writes[1].ok =>
                   /\ out.err
                   /\ ~out.Requeue
                   /\ objects' = objects]_vars

\* the finalizer of a new record was added and the pass asked for an
\* immediate requeue
C21_Witness ==
    /\ pass.pc = "done"
    /\ pass.res = "ok"
    /\ ~pass.read.DeletionTimestamp
    /\ Finalizer \notin pass.read.Finalizers
    /\ Finalizer \in objects[pass.key].Finalizers
    /\ objects[pass.key].Status = EmptyStatus
    /\ pass.out.Requeue
    /\ ~pass.out.err

\* C22: a pass that comes to the phase announcement (live record with the
\* finalizer, not Ready for its generation, name not reserved) and read a
\* phase that is neither Progressing nor Ready makes one write, the status
\* write of phase Progressing with the message "Registering cluster...",
\* and returns without creating the temporary file and without calling
\* the loader or the Registrar; and every pass that creates the temporary
\* file or calls the loader or the Registrar read the phase Progressing or
\* Ready, which is the phase the stored record shows during that pass.
C22_AnnouncementPass ==
    [][PassStep =>
          LET out == pass'.out
              k == pass.key
          IN /\ (/\ ReadForward
                 /\ ~ReadFixedPoint
                 /\ NameOf(k, pass.read) # ClusterLocalName
                 /\ pass.read.Status.Phase \notin {"Progressing", "Ready"})
                => /\ Len(out.writes) = 1
                   /\ out.writes[1].kind = "status"
                   /\ out.writes[1].obj.Status =
                         [pass.read.Status EXCEPT
                             !.Phase = "Progressing",
                             !.Message = <<"Registering cluster...">>]
                   /\ out.writes[1].ok =>
                         /\ ReturnsNothing(out)
                         /\ objects'[k].Status.Phase = "Progressing"
                   /\ ~out.writes[1].ok => out.err
                   /\ NoCollaboratorCall(out)
                   /\ out.tmpCreated = 0
                   /\ secrets' = secrets
             /\ (out.tmpCreated > 0 \/ out.loaderCalls > 0
                                    \/ out.registrarCalls > 0)
                => /\ pass.read.Status.Phase \in {"Progressing", "Ready"}
                   /\ objects[k].Status.Phase = pass.read.Status.Phase]_vars

\* a new record, which shows no phase yet, was announced as Progressing by
\* a pass that called nothing
C22_Witness ==
    /\ pass.pc = "done"
    /\ ReadForward
    /\ pass.read.Status.Phase = ""
    /\ NameOf(pass.key, pass.read) # ClusterLocalName
    /\ Len(pass.out.writes) = 1
    /\ pass.out.writes[1].ok
    /\ objects[pass.key].Status.Phase = "Progressing"
    /\ NoCollaboratorCall(pass.out)
    /\ pass.out.tmpCreated = 0

\* C23: a pass in which the Registrar succeeds makes one write, a status
\* write of phase Ready with observedGeneration equal to the generation
\* read, a clusterInfo holding the server of the loaded descriptor and the
\* credential type inferred from it, a lastReconcileTime and exactly one
\* condition, Available; and a status write of phase Ready is made only
\* in a pass whose Registrar call returned success.
C23_SuccessProjection ==
    [][PassStep =>
          LET out == pass'.out
              doc == pass.read.Spec.Kubeconfig
          IN /\ (out.registrarCalls = 1 /\ out.regErr = "")
                => /\ Len(out.writes) = 1
                   /\ out.writes[1].kind = "status"
                   /\ LET st == out.writes[1].obj.Status
                      IN /\ st.Phase = "Ready"
                         /\ st.ObservedGeneration = pass.read.Generation
                         /\ st.ClusterInfo =
                               <<[Endpoint |-> doc.Server,
                                  CredentialType |->
                                      IF doc.Token # "" \/ doc.Exec
                                      THEN "ServiceAccountToken"
                                      ELSE "X509Certificate"]>>
                         /\ st.LastReconcileTime \in Times
                         /\ Len(st.Conditions) = 1
                         /\ st.Conditions[1].Type = Available.Type
                         /\ st.Conditions[1].Status = Available.Status
                         /\ st.Conditions[1].Reason = Available.Reason
                   /\ out.writes[1].ok =>
                         objects'[pass.key].Status = out.writes[1].obj.Status
             /\ \A i \in 1..Len(out.writes) :
                   (/\ out.writes[i].kind = "status"
                    /\ out.writes[i].obj.Status.Phase = "Ready")
                   => /\ out.registrarCalls = 1
                      /\ out.regErr = ""
                      /\ secrets'[out.regName].exists]_vars

\* the changed spec of a Ready record was registered and the record is
\* Ready for generation 2, with the server of the new descriptor
C23_Witness ==
    /\ pass.pc = "done"
    /\ pass.out.registrarCalls = 1
    /\ pass.out.regErr = ""
    /\ pass.read.Generation = 2
    /\ pass.read.Status.ObservedGeneration = 1
    /\ pass.read.Status.Conditions # <<>>
    /\ objects[pass.key].Status.Phase = "Ready"
    /\ objects[pass.key].Status.ObservedGeneration = 2
    /\ objects[pass.key].Status.ClusterInfo # <<>>
    /\ objects[pass.key].Status.ClusterInfo[1].Endpoint =
          pass.read.Spec.Kubeconfig.Server

\* C24: a pass on a record that is marked for deletion and does not carry
\* the finalizer calls no Detacher and no other collaborator, makes no
\* write, returns no error and no requeue, and leaves every record and
\* every secret as it was.
C24_DeletionWithoutFinalizer ==
    [][(/\ PassStep
        /\ pass.res = "ok"
        /\ pass.read.DeletionTimestamp
        /\ Finalizer \notin pass.read.Finalizers)
       => /\ pass'.out.detacherCalls = 0
          /\ NoCollaboratorCall(pass'.out)
          /\ pass'.out.tmpCreated = 0
          /\ pass'.out.writes = <<>>
          /\ ReturnsNothing(pass'.out)
          /\ objects' = objects
          /\ secrets' = secrets]_vars

\* the cluster was detached and the finalizer taken off while a foreign
\* finalizer still holds the record; the pass that follows did nothing
C24_Witness ==
    /\ pass.pc = "done"
    /\ pass.res = "ok"
    /\ pass.read.DeletionTimestamp
    /\ pass.read.Finalizers = {ForeignFinalizer}
    /\ pass.read.Status.Phase = "Ready"
    /\ objects[pass.key] = pass.read
    /\ ~secrets[NameOf(pass.key, pass.read)].exists
    /\ pass.out.writes = <<>>
    /\ ~pass.out.err

\* C25: the finalizer leaves a record only in a pass on that record, which
\* read it marked for deletion and whose one Detacher call returned
\* success or not-found; and a pass whose Detacher call returns another
\* error returns that error, makes no write and leaves the finalizer, the
\* status and every secret as they were.
C25_RemovalGuardedByDetach ==
    [][/\ \A k \in Keys :
            (/\ Finalizer \in objects[k].Finalizers
             /\ Finalizer \notin objects'[k].Finalizers)
            => /\ PassStep
               /\ pass.key = k
               /\ pass.read.DeletionTimestamp
               /\ pass'.out.detacherCalls = 1
               /\ pass'.out.detErr \in {"", "notfound"}
       /\ (PassStep /\ pass'.out.detacherCalls > 0
                    /\ pass'.out.detErr \notin {"", "notfound"})
          => /\ pass'.out.err
             /\ ~pass'.out.Requeue
             /\ pass'.out.RequeueAfter = 0
             /\ pass'.out.writes = <<>>
             /\ Finalizer \in objects'[pass.key].Finalizers
             /\ objects' = objects
             /\ secrets' = secrets]_vars

\* the Detacher failed on a Ready record marked for deletion: the pass
\* returned the error, and the record keeps its finalizer, its status and
\* its secret
C25_Witness ==
    /\ pass.pc = "done"
    /\ pass.read.DeletionTimestamp
    /\ pass.out.detacherCalls = 1
    /\ pass.out.detErr = "error"
    /\ pass.out.err
    /\ Finalizer \in objects[pass.key].Finalizers
    /\ objects[pass.key].Status.Phase = "Ready"
    /\ secrets[NameOf(pass.key, pass.read)].exists

\* the i-th write of the pass is a rejected status write of this phase
RejectedStatusWrite(out, i, phase) ==
    /\ out.writes[i].kind = "status"
    /\ out.writes[i].obj.Status.Phase = phase
    /\ ~out.writes[i].ok

C27_FailureWriteSwallowed ==
    [][PassStep =>
          LET out == pass'.out
              k == pass.key
          IN \A i \in 1..Len(out.writes) :
                RejectedStatusWrite(out, i, "Failed")
                => /\ ~out.err
                   /\ ~out.Requeue
                   /\ out.RequeueAfter =
                         IF out.registrarCalls = 1 /\ out.regErr # ""
                         THEN 30 ELSE 0
                   /\ Len(out.writes) = 1
                   /\ objects' = objects
                   /\ objects'[k].Status.Phase = objects[k].Status.Phase
                   /\ objects'[k].Status.Message = objects[k].Status.Message
                   /\ objects'[k].Status.Conditions =
                         objects[k].Status.Conditions]_vars

\* the failure write for a malformed descriptor was rejected by the API
\* server: the pass returned nothing and the record is still Progressing
C27_Witness ==
    /\ pass.pc = "done"
    /\ ~pass.stale
    /\ pass.out.loaderCalls = 1
    /\ pass.out.registrarCalls = 0
    /\ Len(pass.out.writes) = 1
    /\ pass.out.writes[1].obj.Status.Phase = "Failed"
    /\ ~pass.out.writes[1].ok
    /\ ReturnsNothing(pass.out)
    /\ objects[pass.key].Status.Phase = "Progressing"

\* C28: a pass whose Registrar call fails returns no error, no immediate
\* requeue and a requeue after 30 seconds; no other pass returns a delayed
\* requeue; and a pass calls the loader, the Registrar and the Detacher
\* once at most each, the Detacher never together with the other two.
C28_BoundedRetry ==
    [][PassStep =>
          LET out == pass'.out
          IN /\ (out.registrarCalls > 0 /\ out.regErr # "")
                => /\ ~out.err
                   /\ ~out.Requeue
                   /\ out.RequeueAfter = 30
             /\ out.RequeueAfter # 0
                => /\ out.registrarCalls = 1
                   /\ out.regErr # ""
                   /\ out.RequeueAfter = 30
             /\ out.loaderCalls <= 1
             /\ out.registrarCalls <= out.loaderCalls
             /\ out.detacherCalls <= 1
             /\ out.detacherCalls + out.loaderCalls <= 1
             /\ out.tmpCreated <= 1]_vars

\* the Registrar failed once for a Progressing record: the pass asked for
\* a requeue after 30 seconds, returned no error and stored no secret
C28_Witness ==
    /\ pass.pc = "done"
    /\ pass.read.Status.Phase = "Progressing"
    /\ pass.out.loaderCalls = 1
    /\ pass.out.registrarCalls = 1
    /\ pass.out.regErr # ""
    /\ pass.out.RequeueAfter = 30
    /\ ~pass.out.err
    /\ ~secrets[pass.out.regName].exists

\* C29: the clusterInfo a pass writes with phase Ready names the
\* credential type ServiceAccountToken exactly when the credential of the
\* descriptor it read has a bearer token or names an exec provider, and
\* X509Certificate in every other case, with or without client
\* certificate data; and so does the clusterInfo of every record that is
\* Ready for its generation.
C29_CredentialType ==
    [][/\ PassStep =>
             \A i \in 1..Len(pass'.out.writes) :
                LET st == pass'.out.writes[i].obj.Status
                    doc == pass.read.Spec.Kubeconfig
                IN (pass'.out.writes[i].kind = "status" /\ st.Phase = "Ready")
                   => /\ st.ClusterInfo # <<>>
                      /\ st.ClusterInfo[1].CredentialType \in
                            {"ServiceAccountToken", "X509Certificate"}
                      /\ st.ClusterInfo[1].CredentialType =
                            "ServiceAccountToken"
                         <=> (doc.Token # "" \/ doc.Exec)
       /\ \A k \in Keys :
             (/\ objects'[k].exists
              /\ objects'[k].Status.Phase = "Ready"
              /\ objects'[k].Status.ObservedGeneration =
                    objects'[k].Generation)
             => LET doc == objects'[k].Spec.Kubeconfig
                    info == objects'[k].Status.ClusterInfo
                IN /\ info # <<>>
                   /\ (doc.Token # "" \/ doc.Exec) =>
                         info[1].CredentialType = "ServiceAccountToken"
                   /\ (doc.Token = "" /\ ~doc.Exec) =>
                         info[1].CredentialType = "X509Certificate"]_vars

\* a record whose credential names an exec provider and has no token was
\* registered as ServiceAccountToken, after it had been registered as
\* X509Certificate with another credential
C29_Witness ==
    /\ pass.pc = "done"
    /\ pass.read.Spec.Kubeconfig.Exec
    /\ pass.read.Spec.Kubeconfig.Token = ""
    /\ pass.read.Status.ClusterInfo # <<>>
    /\ pass.read.Status.ClusterInfo[1].CredentialType = "X509Certificate"
    /\ objects[pass.key].Status.Phase = "Ready"
    /\ objects[pass.key].Status.ObservedGeneration = 2
    /\ objects[pass.key].Status.ClusterInfo[1].CredentialType =
          "ServiceAccountToken"

\* the pass came to the creation of the temporary file: it read a live
\* record with the finalizer that is not Ready for its generation, whose
\* name is not reserved and whose phase is Progressing or Ready
ReadForTmpFile ==
    /\ ReadForward
    /\ ~ReadFixedPoint
    /\ NameOf(pass.key, pass.read) # ClusterLocalName
    /\ pass.read.Status.Phase \in {"Progressing", "Ready"}

\* C30: a pass creates one temporary file at most, and whatever it does
\* after the creation (the write to the file fails, the loader fails, the
\* validation fails, the Registrar fails, the Ready write is rejected, or
\* all succeed) the file is removed when the pass returns; a pass that
\* returns before the creation of the file creates none.
C30_ScopedTmpFile ==
    [][PassStep =>
          LET out == pass'.out
          IN /\ out.tmpCreated <= 1
             /\ out.tmpRemoved = out.tmpCreated
             /\ (\/ out.loaderCalls > 0
                 \/ out.registrarCalls > 0
                 \/ out.exit \in {"tmpWriteErr", "loadErr", "validateErr",
                                  "registerErr", "readyWriteErr", "ready"})
                => /\ out.tmpCreated = 1
                   /\ out.tmpRemoved = 1
             /\ ~ReadForTmpFile => out.tmpCreated = 0
             /\ out.tmpCreated = 0 =>
                   /\ out.tmpRemoved = 0
                   /\ out.loaderCalls = 0
                   /\ out.registrarCalls = 0]_vars

\* the loader rejected the descriptor in the temporary file, and the file
\* was removed when the pass returned
C30_Witness ==
    /\ pass.pc = "done"
    /\ pass.out.tmpCreated = 1
    /\ pass.out.tmpRemoved = 1
    /\ pass.out.loaderCalls = 1
    /\ pass.out.registrarCalls = 0
    /\ objects[pass.key].Status.Phase = "Failed"

\* C31: the cluster name a deletion pass gives to the Detacher and the
\* cluster name a forward pass gives to the Registrar are both the name
\* resolved from the spec the pass read, spec.clusterName when it is not
\* empty and the name of the record otherwise; so a deletion pass on a
\* record detaches the name a forward pass on the same spec registers.
C31_SameNameOnBothPaths ==
    [][PassStep =>
          LET out == pass'.out
              k == pass.key
              name == IF pass.read.Spec.ClusterName # ""
                      THEN pass.read.Spec.ClusterName ELSE k
          IN /\ out.detacherCalls > 0 => out.detName = name
             /\ out.registrarCalls > 0 => out.regName = name
             /\ out.detacherCalls > 0 =>
                   \A t \in Times :
                      LET forward ==
                              Reconcile(k, "ok",
                                  [pass.read EXCEPT
                                      !.DeletionTimestamp = FALSE,
                                      !.Status.Phase = "Progressing"],
                                  GoodEnv, secrets, t)
                      IN forward.registrarCalls > 0 =>
                            forward.regName = out.detName]_vars

\* a record without spec.clusterName was registered under its own name,
\* and the deletion pass detached the secret of that name
C31_Witness ==
    /\ pass.pc = "done"
    /\ pass.read.DeletionTimestamp
    /\ pass.read.Spec.ClusterName = ""
    /\ pass.read.Status.Phase = "Ready"
    /\ pass.out.detacherCalls = 1
    /\ pass.out.detName = pass.key
    /\ pass.out.detErr = ""
    /\ ~secrets[pass.key].exists

\* C32: a secret that was registered for a record exists under the
\* cluster name resolved from the spec of the record only, once the record
\* is Ready for its generation; and no secret registered for a record
\* exists once the record was deleted and is gone.
C32_NoOrphanAfterRename ==
    \A k \in Keys :
        \A n \in SecretNames :
            (secrets[n].exists /\ secrets[n].owner = k)
            => /\ (/\ objects[k].exists
                   /\ objects[k].Status.Phase = "Ready"
                   /\ objects[k].Status.ObservedGeneration =
                         objects[k].Generation)
                  => n = NameOf(k, objects[k])
               /\ objects[k].exists

\* the record under k has no deletion marker and is Ready for its
\* generation
LiveReady(objs, k) ==
    /\ objs[k].exists
    /\ ~objs[k].DeletionTimestamp
    /\ objs[k].Status.Phase = "Ready"
    /\ objs[k].Status.ObservedGeneration = objs[k].Generation

\* C33: when two records resolve to the same cluster name, both are Ready
\* and the secret of that name exists, no step that leaves one of them
\* live and Ready (the deletion of the other one and the pass that handles
\* it included) removes the secret.
C33_SharedNameSurvives ==
    [][\A k \in Keys : \A j \in Keys \ {k} :
          (/\ LiveReady(objects, k)
           /\ objects[j].exists
           /\ objects[j].Status.Phase = "Ready"
           /\ NameOf(j, objects[j]) = NameOf(k, objects[k])
           /\ secrets[NameOf(k, objects[k])].exists
           /\ LiveReady(objects', k))
          => secrets'[NameOf(k, objects[k])].exists]_vars

\* C34: no pass calls the Registrar or the Detacher with the reserved
\* cluster name 'local', and a pass on a record whose resolved name is
\* 'local' calls neither of them.
C34_ReservedNeverReachesCollaborator ==
    [][PassStep =>
          LET out == pass'.out
          IN /\ out.registrarCalls > 0 => out.regName # ClusterLocalName
             /\ out.detacherCalls > 0 => out.detName # ClusterLocalName
             /\ (/\ pass.res = "ok"
                 /\ NameOf(pass.key, pass.read) = ClusterLocalName)
                => /\ out.registrarCalls = 0
                   /\ out.detacherCalls = 0]_vars

\* C35: a successful Registrar call of a pass uses the cluster name and
\* the descriptor of the spec generation the pass read, and a record that
\* is stored with phase Ready after that call has observedGeneration equal
\* to that generation; the phase Ready and observedGeneration of a record
\* change in no other step.  So whenever a record is Ready with
\* observedGeneration g, the last successful Registrar call for it used
\* the spec of generation g.
C35_ReadyMatchesRegistered ==
    [][/\ (PassStep /\ pass'.out.registrarCalls = 1
                    /\ pass'.out.regErr = "")
          => LET k == pass.key
             IN /\ pass'.out.regName = NameOf(k, pass.read)
                /\ secrets'[pass'.out.regName].endpoint =
                      pass.read.Spec.Kubeconfig.Server
                /\ (objects'[k].exists /\ objects'[k].Status.Phase = "Ready")
                   => objects'[k].Status.ObservedGeneration =
                         pass.read.Generation
       /\ \A k \in Keys :
             (/\ objects'[k].exists
              /\ objects'[k].Status.Phase = "Ready"
              /\ \/ objects[k].Status.Phase # "Ready"
                 \/ objects[k].Status.ObservedGeneration #
                       objects'[k].Status.ObservedGeneration)
             => /\ PassStep
                /\ pass.key = k
                /\ pass'.out.registrarCalls = 1
                /\ pass'.out.regErr = ""]_vars

\* C36: status.observedGeneration of a record is never greater than its
\* generation, and no step (pass, spec update or deletion request) makes
\* it smaller.
C36_ObservedGenerationMonotone ==
    [][\A k \in Keys :
          /\ objects[k].exists =>
                objects[k].Status.ObservedGeneration <= objects[k].Generation
          /\ objects'[k].exists =>
                /\ objects'[k].Status.ObservedGeneration <=
                      objects'[k].Generation
                /\ objects[k].exists =>
                      objects'[k].Status.ObservedGeneration >=
                         objects[k].Status.ObservedGeneration]_vars

\* a record that showed observedGeneration 1 and was announced again at
\* generation 2 was registered and shows observedGeneration 2
C36_Witness ==
    /\ pass.pc = "done"
    /\ pass.read.Status.ObservedGeneration = 1
    /\ pass.read.Generation = 2
    /\ pass.read.Status.Phase = "Progressing"
    /\ objects[pass.key].Status.Phase = "Ready"
    /\ objects[pass.key].Status.ObservedGeneration = 2
    /\ objects[pass.key].Generation = 2

\* C37: every stored record with phase Ready shows exactly one condition,
\* Available; every stored record with phase Failed shows exactly one
\* condition, Unavailable, whose message is status.message; and a write of
\* phase Progressing leaves the conditions as the pass read them, so a
\* Progressing record shows no condition when new and otherwise the one
\* the last Ready or Failed write left.
C37_PhaseAndConditionAgree ==
    [][/\ \A k \in Keys :
             LET st == objects'[k].Status
             IN objects'[k].exists =>
                   /\ st.Phase = "Ready" =>
                         /\ Len(st.Conditions) = 1
                         /\ st.Conditions[1].Type = "Ready"
                         /\ st.Conditions[1].Status = "True"
                         /\ st.Conditions[1].Reason = "Available"
                   /\ st.Phase = "Failed" =>
                         /\ Len(st.Conditions) = 1
                         /\ st.Conditions[1].Type = "Ready"
                         /\ st.Conditions[1].Status = "False"
                         /\ st.Conditions[1].Reason = "Unavailable"
                         /\ st.Conditions[1].Message = st.Message
                   /\ st.Phase \in {"", "Progressing"} =>
                         /\ Len(st.Conditions) <= 1
                         /\ st.ObservedGeneration = 0 <=> st.Conditions = <<>>
       /\ PassStep =>
             \A i \in 1..Len(pass'.out.writes) :
                (/\ pass'.out.writes[i].kind = "status"
                 /\ pass'.out.writes[i].obj.Status.Phase = "Progressing")
                => /\ pass'.out.writes[i].obj.Status.Conditions =
                         pass.read.Status.Conditions
                   /\ pass'.out.writes[i].ok =>
                         objects'[pass.key].Status.Conditions =
                            objects[pass.key].Status.Conditions]_vars

\* a Failed record was announced as Progressing again and still shows the
\* Unavailable condition of the failure, whose message is no longer
\* status.message
C37_Witness ==
    /\ pass.pc = "done"
    /\ pass.read.Status.Phase = "Failed"
    /\ objects[pass.key].Status.Phase = "Progressing"
    /\ Len(objects[pass.key].Status.Conditions) = 1
    /\ objects[pass.key].Status.Conditions[1].Reason = "Unavailable"
    /\ objects[pass.key].Status.Conditions[1].Message #
          objects[pass.key].Status.Message

\* C38: a pass makes one write to the record at most, a metadata update
\* or a status update, whichever way it returns; a pass that fails on the
\* temporary file, the loader, the validation or the Registrar makes
\* exactly one, the failed-status write, and no step changes more than one
\* record.
C38_OneWritePerPass ==
    [][/\ PassStep =>
             LET out == pass'.out
             IN /\ Len(out.writes) <= 1
                /\ \A i \in 1..Len(out.writes) :
                      out.writes[i].kind \in {"meta", "status"}
                /\ out.exit \in {"reservedName", "tmpCreateErr",
                                 "tmpWriteErr", "loadErr", "validateErr",
                                 "registerErr"}
                   => Len(out.writes) = 1
                /\ \A k \in Keys \ {pass.key} : objects'[k] = objects[k]
                /\ out.writes = <<>> => objects' = objects
       /\ \A k \in Keys : \A j \in Keys \ {k} :
             objects'[k] = objects[k] \/ objects'[j] = objects[j]]_vars

\* the Registrar failed and the pass made its one write, the failed
\* status, which the API server rejected
C38_Witness ==
    /\ pass.pc = "done"
    /\ ~pass.stale
    /\ pass.out.registrarCalls = 1
    /\ pass.out.regErr # ""
    /\ Len(pass.out.writes) = 1
    /\ pass.out.writes[1].kind = "status"
    /\ ~pass.out.writes[1].ok
    /\ objects[pass.key] = pass.read

\* C39: when the validation of the loaded credential fails (the name it
\* was given is empty or the reserved one) the pass calls no Registrar,
\* makes one write, the failed status with the message "Validation
\* failed: " and the error, removes the temporary file and returns
\* nothing; and in no pass does it fail: a pass that loaded a well-formed
\* descriptor got through the name check, so the name is the resolved
\* one, not empty and not reserved, and the Registrar is called under it.
C39_ValidationAfterNameCheck ==
    [][(PassStep /\ ReadForward) =>
          LET out == pass'.out
              k == pass.key
              doc == pass.read.Spec.Kubeconfig
          IN /\ doc.valid =>
                   \A name \in {"", ClusterLocalName} : \A t \in Times :
                      LET failed == registerCluster(k, pass.read, name,
                                        GoodEnv, secrets, t)
                      IN /\ failed.loaderCalls = 1
                         /\ failed.registrarCalls = 0
                         /\ failed.secrets = secrets
                         /\ Len(failed.writes) = 1
                         /\ failed.writes[1].kind = "status"
                         /\ failed.writes[1].obj.Status.Phase = "Failed"
                         /\ Len(failed.writes[1].obj.Status.Message) = 2
                         /\ failed.writes[1].obj.Status.Message[1] =
                               "Validation failed: "
                         /\ failed.tmpRemoved = failed.tmpCreated
                         /\ ReturnsNothing(failed)
             /\ \A i \in 1..Len(out.writes) :
                   ~Contains(out.writes[i].obj.Status.Message,
                             "Validation failed: ")
             /\ (out.loaderCalls = 1 /\ doc.valid)
                => /\ out.registrarCalls = 1
                   /\ out.regName = NameOf(k, pass.read)
                   /\ out.regName # ""
                   /\ out.regName # ClusterLocalName]_vars

\* a record without spec.clusterName got through the name check and the
\* validation under its own name, and its Registrar call failed
C39_Witness ==
    /\ pass.pc = "done"
    /\ pass.read.Spec.ClusterName = ""
    /\ pass.read.Spec.Kubeconfig.valid
    /\ pass.out.loaderCalls = 1
    /\ pass.out.registrarCalls = 1
    /\ pass.out.regName = pass.key
    /\ pass.out.regErr # ""
    /\ objects[pass.key].Status.Phase = "Failed"

====
